---- MODULE Spec2Model ----
(***************************************************************************)
(* A model of nestor: the Trello resource cache and card creation          *)
(* (src/nestor/trello.py), the rule model (src/nestor/rule_parser.py) and  *)
(* the cron scheduler (src/nestor/scheduling.py).                          *)
(*                                                                         *)
(* Time is in seconds, as returned by time.time().  The remote service is  *)
(* a sequence of boards, each with its lists and labels; it is read and    *)
(* written only through the calls the client issues, and changed behind    *)
(* the client's back by the Remote* actions.                               *)
(***************************************************************************)
EXTENDS Integers, Sequences, FiniteSets, TLC

VARIABLES
    now,          \* the wall clock, time.time()
    _boards,      \* Trello._boards: the snapshot, a sequence of boards
    _cache_time,  \* Trello._cache_time
    remote,       \* the boards of the remote service, with lists and labels
    cards,        \* the number of cards created on the remote service
    fetchedAt,    \* history: when _get_board last completed a refresh, -1 if never
    last,         \* the last client call: arguments, remote calls, result
    rules,        \* CronManager._rules
    sched         \* the result of the last get_next_execution call

vars == <<now, _boards, _cache_time, remote, cards, fetchedAt, last, rules, sched>>

trelloVars == <<now, _boards, _cache_time, remote, cards, fetchedAt, last>>

-----------------------------------------------------------------------------
(* Bounds of the model *)

MaxTicks == 1      \* the clock is advanced at most this many times
MaxBoards == 2     \* the remote service has at most this many boards
MaxLists == 2      \* ... and at most this many lists, over all its boards
MaxCards == 2      \* ... and at most this many cards
MaxRules == 2      \* at most this many rules are loaded

(* Values the inputs are drawn from *)

TickSteps == {1}
BoardNames == {"Ops", "Dev"}
ListNames == {"Today", "Later"}

-----------------------------------------------------------------------------
(* Python values *)

None == [kind |-> "None"]
\* None where a list is expected (TrelloBoard.lists, TrelloBoard.labels)
NoneList == <<None>>

CACHE_VALIDITY == 86400

\* The clock starts at the last instant at which a snapshot with
\* _cache_time = 0.0 is still valid, and runs past it: every later instant
\* behaves as the first one past it does.
StartTime == CACHE_VALIDITY

\* Identifiers the remote service hands out: boards, lists and labels are
\* never deleted, so the position of an object identifies it.
BoardId(k) == 100 * k
ListId(k, j) == 100 * k + j
LabelId(k, j) == 100 * k + 50 + j
CardId(n) == 10000 + n

TrelloList(name, id) == [name |-> name, id |-> id]
TrelloLabel(name, id, color) == [name |-> name, id |-> id, color |-> color]
TrelloBoard(name, id, lists, labels) ==
    [name |-> name, id |-> id, lists |-> lists, labels |-> labels]

\* The labels a remote board is created with: a board named "Ops" has a
\* single "red" label, any other board three labels, two of them named "red"
LabelsOf(board_name) ==
    IF board_name = "Ops"
    THEN <<[name |-> "red", color |-> "red"]>>
    ELSE <<[name |-> "red", color |-> "red"], [name |-> "blue", color |-> "sky"],
           [name |-> "red", color |-> "pink"]>>

-----------------------------------------------------------------------------
(* Sequence helpers *)

\* [x for x in s if P(x)], as the indices kept, in order
RECURSIVE FilterIdx(_, _, _)
FilterIdx(s, keep, i) ==
    IF i > Len(s) THEN <<>>
    ELSE (IF s[i] \in keep THEN <<i>> ELSE <<>>) \o FilterIdx(s, keep, i + 1)

\* the indices of the elements of s whose name is nm, in order
NamedIdx(s, nm) == FilterIdx(s, {x \in {s[i] : i \in 1..Len(s)} : x.name = nm}, 1)

Prefix(s, n) == SubSeq(s, 1, IF n < Len(s) THEN n ELSE Len(s))

-----------------------------------------------------------------------------
(* The remote API: the discovery calls *)

Call(what, arg) == [what |-> what, arg |-> arg]

\* GET /1/members/me/boards
_discover_all_boards(rem) ==
    [i \in 1..Len(rem) |-> TrelloBoard(rem[i].name, rem[i].id, NoneList, NoneList)]

RemoteBoardIdx(rem, board_id) == CHOOSE i \in 1..Len(rem) : rem[i].id = board_id

\* a list discovery that returns no list
_discover_lists_in_board_empty(rem, board_id) == <<>>

\* GET /1/boards/{board_id}/lists
_discover_lists_in_board(rem, board_id) ==
    LET b == rem[RemoteBoardIdx(rem, board_id)]
    IN [j \in 1..Len(b.lists) |-> TrelloList(b.lists[j].name, b.lists[j].id)]

\* GET /1/boards/{board_id}/labels
_discover_labels_in_board(rem, board_id) ==
    LET b == rem[RemoteBoardIdx(rem, board_id)]
    IN [j \in 1..Len(b.labels) |->
            TrelloLabel(b.labels[j].name, b.labels[j].id, b.labels[j].color)]

\* The calls of one full refresh, in the order they are issued
RefreshCalls(rem) ==
    LET n == Len(rem)
    IN [k \in 1..(1 + 2 * n) |->
            IF k = 1 THEN Call("discover_boards", 0)
            ELSE IF k % 2 = 0 THEN Call("discover_lists", rem[k \div 2].id)
            ELSE Call("discover_labels", rem[k \div 2].id)]

\* the loop of _cache_all_boards without the assignment of line 163
RefreshLocal_no_labels(rem, done) ==
    LET discovered == _discover_all_boards(rem)
    IN [i \in 1..Len(discovered) |->
            IF 2 * i + 1 <= done
            THEN [discovered[i] EXCEPT
                    !.lists = _discover_lists_in_board(rem, discovered[i].id)]
            ELSE discovered[i]]

\* The local list `boards` of _cache_all_boards after the first `done` calls
\* of the refresh succeeded: board i has its lists and labels assigned once
\* both of its fetches (calls 2i and 2i+1) have returned.
RefreshLocal(rem, done) ==
    LET discovered == _discover_all_boards(rem)
    IN [i \in 1..Len(discovered) |->
            IF 2 * i + 1 <= done
            THEN [discovered[i] EXCEPT
                    !.lists = _discover_lists_in_board(rem, discovered[i].id),
                    !.labels = _discover_labels_in_board(rem, discovered[i].id)]
            ELSE discovered[i]]

\* Whether the call whose raise_for_status() raises is among the next n
\* calls: failAt counts from the next call, 0 (or less) means none raises.
FailsWithin(failAt, n) == 1 <= failAt /\ failAt <= n

\* _cache_all_boards without the assignment of line 164
_cache_all_boards_unassigned(boards, rem, failAt) ==
    LET calls == RefreshCalls(rem)
    IN IF FailsWithin(failAt, Len(calls))
       THEN [ok |-> FALSE, boards |-> boards, calls |-> Prefix(calls, failAt)]
       ELSE [ok |-> TRUE, boards |-> boards, calls |-> calls]

\* _cache_all_boards assigning self._boards before the loop instead of after
_cache_all_boards_partial(boards, rem, failAt) ==
    LET calls == RefreshCalls(rem)
    IN IF FailsWithin(failAt, Len(calls))
       THEN [ok |-> FALSE,
             boards |-> IF failAt = 1 THEN boards ELSE RefreshLocal(rem, failAt - 1),
             calls |-> Prefix(calls, failAt)]
       ELSE [ok |-> TRUE, boards |-> RefreshLocal(rem, Len(calls)), calls |-> calls]

\* Trello._cache_all_boards.  The result is the new value of self._boards,
\* whether the refresh completed, and the calls issued: self._boards is
\* assigned (line 164) after the loop only.
_cache_all_boards(boards, rem, failAt) ==
    LET calls == RefreshCalls(rem)
    IN IF FailsWithin(failAt, Len(calls))
       THEN [ok |-> FALSE, boards |-> boards, calls |-> Prefix(calls, failAt)]
       ELSE [ok |-> TRUE, boards |-> RefreshLocal(rem, Len(calls)), calls |-> calls]

-----------------------------------------------------------------------------
(* The cache *)

\* Trello.__cache_is_valid
__cache_is_valid(boards, cache_time, t) ==
    Len(boards) > 0 /\ t - cache_time <= CACHE_VALIDITY

\* Trello.__get_cached_board: the index in boards of the first board with
\* that name, 0 (None) when there is none
__get_cached_board(boards, board_name) ==
    LET searched_boards == NamedIdx(boards, board_name)
    IN IF searched_boards = <<>> THEN 0 ELSE searched_boards[1]

\* __get_cached_list finding no list
__get_cached_list_never(board, list_name) == 0

\* Trello.__get_cached_list, likewise on board.lists
__get_cached_list(board, list_name) ==
    LET searched_lists == NamedIdx(board.lists, list_name)
    IN IF searched_lists = <<>> THEN 0 ELSE searched_lists[1]

\* A returned board: the object (its index in self._boards) and its value
BoardRet(boards, i) ==
    IF i = 0 THEN None ELSE [kind |-> "board", idx |-> i, board |-> boards[i]]

Raised(exc) == [kind |-> "raised", exc |-> exc]

\* _get_board looking the board up again in the snapshot it had before the
\* refresh of line 106
_get_board_stale_retry(boards, cache_time, t, rem, board_name, failAt) ==
    LET valid == __cache_is_valid(boards, cache_time, t)
        \* lines 92-94
        r1 == IF ~valid THEN _cache_all_boards(boards, rem, failAt)
              ELSE [ok |-> TRUE, boards |-> boards, calls |-> <<>>]
        n1 == IF valid THEN 0 ELSE 1
        cache_refreshed_already == ~valid
        \* line 96
        cached_board == __get_cached_board(r1.boards, board_name)
        \* line 106
        r2 == _cache_all_boards(r1.boards, rem, failAt - Len(r1.calls))
    IN IF ~r1.ok
       THEN [boards |-> r1.boards, ret |-> Raised("HTTPError"), calls |-> r1.calls,
             refreshes |-> n1, completed |-> 0]
       ELSE IF cached_board # 0
       THEN [boards |-> r1.boards, ret |-> BoardRet(r1.boards, cached_board),
             calls |-> r1.calls, refreshes |-> n1, completed |-> n1]
       ELSE IF cache_refreshed_already
       THEN [boards |-> r1.boards, ret |-> None, calls |-> r1.calls,
             refreshes |-> n1, completed |-> n1]
       ELSE IF ~r2.ok
       THEN [boards |-> r2.boards, ret |-> Raised("HTTPError"),
             calls |-> r1.calls \o r2.calls, refreshes |-> n1 + 1, completed |-> n1]
       ELSE [boards |-> r2.boards,
             ret |-> BoardRet(r1.boards, __get_cached_board(r1.boards, board_name)),
             calls |-> r1.calls \o r2.calls, refreshes |-> n1 + 1, completed |-> n1 + 1]

\* _get_board with cache_refreshed_already set whether or not it refreshed
_get_board_no_retry(boards, cache_time, t, rem, board_name, failAt) ==
    LET valid == __cache_is_valid(boards, cache_time, t)
        \* lines 92-94
        r1 == IF ~valid THEN _cache_all_boards(boards, rem, failAt)
              ELSE [ok |-> TRUE, boards |-> boards, calls |-> <<>>]
        n1 == IF valid THEN 0 ELSE 1
        cache_refreshed_already == TRUE
        \* line 96
        cached_board == __get_cached_board(r1.boards, board_name)
        \* line 106
        r2 == _cache_all_boards(r1.boards, rem, failAt - Len(r1.calls))
    IN IF ~r1.ok
       THEN [boards |-> r1.boards, ret |-> Raised("HTTPError"), calls |-> r1.calls,
             refreshes |-> n1, completed |-> 0]
       ELSE IF cached_board # 0
       THEN [boards |-> r1.boards, ret |-> BoardRet(r1.boards, cached_board),
             calls |-> r1.calls, refreshes |-> n1, completed |-> n1]
       ELSE IF cache_refreshed_already
       THEN [boards |-> r1.boards, ret |-> None, calls |-> r1.calls,
             refreshes |-> n1, completed |-> n1]
       ELSE IF ~r2.ok
       THEN [boards |-> r2.boards, ret |-> Raised("HTTPError"),
             calls |-> r1.calls \o r2.calls, refreshes |-> n1 + 1, completed |-> n1]
       ELSE [boards |-> r2.boards,
             ret |-> BoardRet(r2.boards, __get_cached_board(r2.boards, board_name)),
             calls |-> r1.calls \o r2.calls, refreshes |-> n1 + 1, completed |-> n1 + 1]

\* Trello._get_board.  The result: the new self._boards, the value returned
\* (or the exception raised), the discovery calls issued, and the number of
\* refreshes started and completed.
_get_board(boards, cache_time, t, rem, board_name, failAt) ==
    LET valid == __cache_is_valid(boards, cache_time, t)
        \* lines 92-94
        r1 == IF ~valid THEN _cache_all_boards(boards, rem, failAt)
              ELSE [ok |-> TRUE, boards |-> boards, calls |-> <<>>]
        n1 == IF valid THEN 0 ELSE 1
        cache_refreshed_already == ~valid
        \* line 96
        cached_board == __get_cached_board(r1.boards, board_name)
        \* line 106
        r2 == _cache_all_boards(r1.boards, rem, failAt - Len(r1.calls))
    IN IF ~r1.ok
       THEN [boards |-> r1.boards, ret |-> Raised("HTTPError"), calls |-> r1.calls,
             refreshes |-> n1, completed |-> 0]
       ELSE IF cached_board # 0
       THEN [boards |-> r1.boards, ret |-> BoardRet(r1.boards, cached_board),
             calls |-> r1.calls, refreshes |-> n1, completed |-> n1]
       ELSE IF cache_refreshed_already
       THEN [boards |-> r1.boards, ret |-> None, calls |-> r1.calls,
             refreshes |-> n1, completed |-> n1]
       ELSE IF ~r2.ok
       THEN [boards |-> r2.boards, ret |-> Raised("HTTPError"),
             calls |-> r1.calls \o r2.calls, refreshes |-> n1 + 1, completed |-> n1]
       ELSE [boards |-> r2.boards,
             ret |-> BoardRet(r2.boards, __get_cached_board(r2.boards, board_name)),
             calls |-> r1.calls \o r2.calls, refreshes |-> n1 + 1, completed |-> n1 + 1]

\* the remote service adds a list to its board k
RemoteWithList(rem, k, name) ==
    [rem EXCEPT ![k].lists = Append(@, TrelloList(name, ListId(k, Len(@) + 1)))]

\* _create_list without the append of line 153
_create_list_no_append(target_board, rem, list_name, failAt) ==
    LET call == Call("create_list", [name |-> list_name, idBoard |-> target_board.id])
        k == RemoteBoardIdx(rem, target_board.id)
        rem2 == RemoteWithList(rem, k, list_name)
        response == rem2[k].lists[Len(rem2[k].lists)]
        created_list == TrelloList(response.name, response.id)
    IN IF FailsWithin(failAt, 1)
       THEN [board |-> target_board, remote |-> rem, ret |-> Raised("HTTPError"),
             calls |-> <<call>>]
       ELSE [board |-> target_board,
             remote |-> rem2, ret |-> [kind |-> "list", list |-> created_list],
             calls |-> <<call>>]

\* Trello._create_list: POST /1/lists, then the list in the response is
\* appended to target_board.lists.  The result: the board, the remote
\* service, the list returned (or the exception raised), the calls issued.
_create_list(target_board, rem, list_name, failAt) ==
    LET call == Call("create_list", [name |-> list_name, idBoard |-> target_board.id])
        k == RemoteBoardIdx(rem, target_board.id)
        rem2 == RemoteWithList(rem, k, list_name)
        response == rem2[k].lists[Len(rem2[k].lists)]
        created_list == TrelloList(response.name, response.id)
    IN IF FailsWithin(failAt, 1)
       THEN [board |-> target_board, remote |-> rem, ret |-> Raised("HTTPError"),
             calls |-> <<call>>]
       ELSE [board |-> [target_board EXCEPT !.lists = Append(@, created_list)],
             remote |-> rem2, ret |-> [kind |-> "list", list |-> created_list],
             calls |-> <<call>>]

\* Trello._get_list.  Iterating over board.lists raises TypeError when it
\* is None.
_get_list(board, rem, list_name, failAt) ==
    LET cached_list == __get_cached_list(board, list_name)
    IN IF board.lists = NoneList
       THEN [board |-> board, remote |-> rem, ret |-> Raised("TypeError"), calls |-> <<>>]
       ELSE IF cached_list # 0
       THEN [board |-> board, remote |-> rem,
             ret |-> [kind |-> "list", list |-> board.lists[cached_list]], calls |-> <<>>]
       ELSE _create_list(board, rem, list_name, failAt)

\* The calls that may raise in an execution that issues res.calls when none
\* does: failAt = 0 when none raises, else the number of the call that does
FailPoints(res) == 0..Len(res.calls)

\* `name in label_names`, label_names a Python list
InList(x, lst) == \E i \in 1..Len(lst) : lst[i] = x

\* _get_valid_label_ids without the condition of the comprehension
_get_valid_label_ids_unfiltered(target_board, label_names) ==
    LET labels == target_board.labels
    IN IF labels = NoneList THEN Raised("TypeError")
       ELSE [kind |-> "ids", ids |-> [n \in 1..Len(labels) |-> labels[n].id]]

\* Trello._get_valid_label_ids: the ids, in the order of the board's
\* labels.  Iterating over target_board.labels raises TypeError when it is
\* None.
_get_valid_label_ids(target_board, label_names) ==
    LET labels == target_board.labels
        kept == FilterIdx(labels,
                    {l \in {labels[i] : i \in 1..Len(labels)} : InList(l.name, label_names)}, 1)
    IN IF labels = NoneList THEN Raised("TypeError")
       ELSE [kind |-> "ids", ids |-> [n \in 1..Len(kept) |-> labels[kept[n]].id]]

RECURSIVE SumLen(_, _)
SumLen(rem, i) == IF i > Len(rem) THEN 0 ELSE Len(rem[i].lists) + SumLen(rem, i + 1)
\* the number of lists of the remote service
TotalLists(rem) == SumLen(rem, 1)

-----------------------------------------------------------------------------
(* Card creation *)

\* A datetime: t in whole seconds, us its microsecond field
DateTime(t, us) == [t |-> t, us |-> us]

\* due.isoformat()[:-3] + 'Z'.  isoformat() of a naive datetime is
\* YYYY-MM-DDTHH:MM:SS when microsecond = 0 and YYYY-MM-DDTHH:MM:SS.ffffff
\* otherwise; cutting three characters leaves the minute in the first case
\* and the millisecond in the second.  The string is modelled by the
\* instant it denotes and its precision.
DueParam(due) ==
    IF due.us = 0
    THEN [upto |-> "minute", t |-> due.t - (due.t % 60), ms |-> 0, suffix |-> "Z"]
    ELSE [upto |-> "millisecond", t |-> due.t, ms |-> due.us \div 1000, suffix |-> "Z"]

\* Trello._create_card: the parameters of POST /1/cards (lines 121-130)
CardParams(target_list, card_name, description, due, place_at_top) ==
    [name |-> card_name, idList |-> target_list.id]
      @@ (IF description # "" THEN [desc |-> description] ELSE <<>>)
      @@ (IF due # None THEN [due |-> DueParam(due)] ELSE <<>>)
      @@ (IF place_at_top THEN [pos |-> "top"] ELSE <<>>)

\* Trello._create_card.  The result: the number of cards of the remote
\* service, the card id returned (or the exception raised), the calls issued.
_create_card(ncards, target_list, card_name, description, due, place_at_top, failAt) ==
    LET call == Call("create_card",
                     CardParams(target_list, card_name, description, due, place_at_top))
    IN IF FailsWithin(failAt, 1)
       THEN [cards |-> ncards, ret |-> Raised("HTTPError"), calls |-> <<call>>]
       ELSE [cards |-> ncards + 1, ret |-> [kind |-> "id", id |-> CardId(ncards + 1)],
             calls |-> <<call>>]

\* Trello._add_labels: one POST /1/cards/{card_id}/idLabels for each label id
_add_labels(card_id, label_ids, failAt) ==
    LET calls == [n \in 1..Len(label_ids) |->
                    Call("add_label", [card |-> card_id, value |-> label_ids[n]])]
    IN IF FailsWithin(failAt, Len(calls))
       THEN [ret |-> Raised("HTTPError"), calls |-> Prefix(calls, failAt)]
       ELSE [ret |-> None, calls |-> calls]

ChecklistId(card_id) == card_id + 10000

\* Trello._create_checklist: POST /1/checklists, then one
\* POST /1/checklists/{checklist_id}/checkItems for each item
_create_checklist(card_id, checklist_name, items, failAt) ==
    LET calls == <<Call("create_checklist", [idCard |-> card_id, name |-> checklist_name])>>
                 \o [n \in 1..Len(items) |->
                        Call("add_checklist_item",
                             [checklist |-> ChecklistId(card_id), name |-> items[n]])]
    IN IF FailsWithin(failAt, Len(calls))
       THEN [ret |-> Raised("HTTPError"), calls |-> Prefix(calls, failAt)]
       ELSE [ret |-> None, calls |-> calls]

\* The state of an add_card execution: self._boards, the remote service and
\* its cards, the calls issued so far, the number of refreshes completed
Exec(boards, rem, ncards, calls, completed) ==
    [boards |-> boards, remote |-> rem, cards |-> ncards, calls |-> calls,
     completed |-> completed]

\* add_card ends: it returns None or an exception leaves it
Ends(st, ret) ==
    [boards |-> st.boards, remote |-> st.remote, cards |-> st.cards, ret |-> ret,
     calls |-> st.calls, completed |-> st.completed]

\* add_card, lines 82-87: the checklist
add_card_checklist(st, cl) ==
    Ends([st EXCEPT !.calls = @ \o cl.calls], cl.ret)

\* add_card creating an empty checklist when none was given
add_card_labels_always_checklist(st, al, card_id, a, failAt) ==
    IF al.ret.kind = "raised" THEN Ends([st EXCEPT !.calls = @ \o al.calls], al.ret)
    ELSE IF a.checklist # None
    THEN add_card_checklist([st EXCEPT !.calls = @ \o al.calls],
             _create_checklist(card_id, a.checklist[1], a.checklist[2],
                               failAt - Len(st.calls) - Len(al.calls)))
    ELSE add_card_checklist([st EXCEPT !.calls = @ \o al.calls],
             _create_checklist(card_id, "", <<>>,
                               failAt - Len(st.calls) - Len(al.calls)))

\* add_card going on to the checklist after a label call failed
add_card_labels_ignoring_failure(st, al, card_id, a, failAt) ==
    IF a.checklist # None
    THEN add_card_checklist([st EXCEPT !.calls = @ \o al.calls],
             _create_checklist(card_id, a.checklist[1], a.checklist[2],
                               failAt - Len(st.calls) - Len(al.calls)))
    ELSE Ends([st EXCEPT !.calls = @ \o al.calls], al.ret)

\* add_card, lines 76-86: the labels were added (al), then the checklist
add_card_labels(st, al, card_id, a, failAt) ==
    IF al.ret.kind = "raised" THEN Ends([st EXCEPT !.calls = @ \o al.calls], al.ret)
    ELSE IF a.checklist # None
    THEN add_card_checklist([st EXCEPT !.calls = @ \o al.calls],
             _create_checklist(card_id, a.checklist[1], a.checklist[2],
                               failAt - Len(st.calls) - Len(al.calls)))
    ELSE Ends([st EXCEPT !.calls = @ \o al.calls], None)

\* add_card, lines 74-81: the card was created (cc), then the labels
add_card_card(st, target_board, cc, a, failAt) ==
    LET st2 == [st EXCEPT !.cards = cc.cards, !.calls = @ \o cc.calls]
        labels_to_add == _get_valid_label_ids(target_board, a.labels_names)
    IN IF cc.ret.kind = "raised" THEN Ends(st2, cc.ret)
       ELSE add_card_labels(st2,
                IF a.labels_names = None \/ a.labels_names = <<>>
                THEN [ret |-> None, calls |-> <<>>]
                ELSE IF labels_to_add.kind = "raised"
                THEN [ret |-> labels_to_add, calls |-> <<>>]
                ELSE _add_labels(cc.ret.id, labels_to_add.ids, failAt - Len(st2.calls)),
                cc.ret.id, a, failAt)

\* add_card, lines 71-74: the list was found or created (gl) in the board
\* self._boards[idx], then the card
add_card_list(st, idx, gl, a, failAt) ==
    LET st2 == [st EXCEPT !.boards[idx] = gl.board, !.remote = gl.remote,
                          !.calls = @ \o gl.calls]
    IN IF gl.ret.kind = "raised" THEN Ends(st2, gl.ret)
       ELSE add_card_card(st2, gl.board,
                _create_card(st2.cards, gl.ret.list, a.card_name, a.description, a.due,
                             a.place_at_top, failAt - Len(st2.calls)),
                a, failAt)

\* add_card without the test of line 67: None.lists raises AttributeError
add_card_board_unchecked(gb, rem, ncards, a, failAt) ==
    LET st == Exec(gb.boards, rem, ncards, gb.calls, gb.completed)
    IN IF gb.ret.kind = "raised" THEN Ends(st, gb.ret)
       ELSE IF gb.ret = None THEN Ends(st, Raised("AttributeError"))
       ELSE add_card_list(st, gb.ret.idx,
                _get_list(gb.ret.board, rem, a.list_name, failAt - Len(gb.calls)),
                a, failAt)

\* add_card, lines 66-71: the board was looked up (gb), then the list
add_card_board(gb, rem, ncards, a, failAt) ==
    LET st == Exec(gb.boards, rem, ncards, gb.calls, gb.completed)
    IN IF gb.ret.kind = "raised" THEN Ends(st, gb.ret)
       ELSE IF gb.ret = None THEN Ends(st, Raised("RequiredResourceMissingException"))
       ELSE add_card_list(st, gb.ret.idx,
                _get_list(gb.ret.board, rem, a.list_name, failAt - Len(gb.calls)),
                a, failAt)

\* Trello.add_card.  a: the arguments.  The result: the new self._boards,
\* the remote service and its cards, None (or the exception raised), the
\* calls issued, and the number of refreshes completed.
add_card(boards, cache_time, t, rem, ncards, a, failAt) ==
    add_card_board(_get_board(boards, cache_time, t, rem, a.board_name, failAt),
                   rem, ncards, a, failAt)

-----------------------------------------------------------------------------
(* The rule model (rule_parser.py) *)

HasKey(d, k) == k \in DOMAIN d

\* str.upper() on the action kinds a definition may name
Upper(str) ==
    CASE str = "add_card" -> "ADD_CARD"
      [] str = "Add_Card" -> "ADD_CARD"
      [] str = "archive_card" -> "ARCHIVE_CARD"
      [] OTHER -> str

\* the members of the enum ActionType
ActionType == {"ADD_CARD"}

\* AddCardExecution.__init__ without the test of lines 21-22
AddCardExecution_unchecked(arguments) ==
    [kind |-> "AddCardExecution", _arguments |-> arguments]

\* AddCardExecution.__init__
AddCardExecution(arguments) ==
    IF \E required_arg \in {"board", "list", "name"} : ~HasKey(arguments, required_arg)
    THEN Raised("ValueError")
    ELSE [kind |-> "AddCardExecution", _arguments |-> arguments]

\* Trigger.__init__
Trigger(definition) ==
    IF HasKey(definition, "schedule")
    THEN [kind |-> "Trigger", _type |-> "SCHEDULED", _cron_expr |-> definition.schedule]
    ELSE Raised("ValueError")

\* Action.__init__
Action(definition) ==
    IF ~HasKey(definition, "do") THEN Raised("KeyError")
    ELSE IF Upper(definition.do) \notin ActionType THEN Raised("KeyError")
    ELSE IF ~HasKey(definition, "with") THEN Raised("KeyError")
    ELSE LET execution == AddCardExecution(definition.with)
         IN IF execution.kind = "raised" THEN execution
            ELSE [kind |-> "Action", _type |-> Upper(definition.do),
                  _arguments |-> definition.with, _execution |-> execution]

\* AddCardExecution.execute (lines 26-28): `pass`.  The result: the value
\* returned and the remote calls issued; no state is changed.
AddCardExecution_execute(execution) == [ret |-> None, calls |-> <<>>]

\* Action.execute: self._execution.execute(), whose value is dropped
Action_execute(action) ==
    [ret |-> None, calls |-> AddCardExecution_execute(action._execution).calls]

\* Rule.__init__: the trigger, then the actions in order; the first
\* exception leaves the constructor
Rule(trigger_def, actions_def) ==
    LET trigger == Trigger(trigger_def)
        actions == [n \in 1..Len(actions_def) |-> Action(actions_def[n])]
        failed == {n \in 1..Len(actions_def) : actions[n].kind = "raised"}
    IN IF trigger.kind = "raised" THEN trigger
       ELSE IF failed # {} THEN actions[CHOOSE n \in failed : \A m \in failed : n <= m]
       ELSE [kind |-> "Rule", _trigger |-> trigger, _actions |-> actions]

\* obj.attr on a Trigger: the instance attributes set by __init__ and the
\* one property the class defines, `type` (lines 42-44)
TriggerGetAttr(trigger, attr) ==
    IF attr = "type" THEN [kind |-> "value", value |-> trigger._type]
    ELSE IF attr \in DOMAIN trigger \ {"kind"} THEN [kind |-> "value", value |-> trigger[attr]]
    ELSE Raised("AttributeError")

-----------------------------------------------------------------------------
(* The scheduler (scheduling.py) *)

\* A cron expression is modelled by the instants it fires at: those equal
\* to offset modulo period, in seconds.  period = 0: not a cron expression.
EveryMinute == [text |-> "* * * * *", period |-> 60, offset |-> 0]
EvenMinutes == [text |-> "*/2 * * * *", period |-> 120, offset |-> 0]
DailyAt0001 == [text |-> "1 0 * * *", period |-> 86400, offset |-> 60]
NotCron == [text |-> "every day", period |-> 0, offset |-> 0]

\* croniter(expr, start).get_next(): the first instant after start at which
\* the expression fires
CronNext(expr, start) ==
    LET base == start - (start % expr.period) + expr.offset
    IN IF base > start THEN base ELSE base + expr.period

\* parse_schedules, as the list of the items of the dict it builds: the
\* croniter objects are distinct keys, in the order of the rules
parse_schedules(rs, t) ==
    LET scheduled == FilterIdx(rs, {r \in {rs[i] : i \in 1..Len(rs)} :
                                      TriggerGetAttr(r._trigger, "type").value = "SCHEDULED"}, 1)
        exprs == [n \in 1..Len(scheduled) |->
                    TriggerGetAttr(rs[scheduled[n]]._trigger, "cron_expr")]
    IN IF \E n \in 1..Len(scheduled) : exprs[n].kind = "raised"
       THEN Raised("AttributeError")
       ELSE IF \E n \in 1..Len(scheduled) : exprs[n].value.period = 0
       THEN Raised("CroniterBadCronError")
       ELSE [kind |-> "dict",
             items |-> [n \in 1..Len(scheduled) |->
                          [cron |-> [expr |-> exprs[n].value, start |-> t],
                           rule |-> scheduled[n]]]]

\* get_next_execution without the test of line 26: min() of no items raises
get_next_execution_unchecked(rs, t) ==
    LET cron_to_rule == parse_schedules(rs, t)
        items == cron_to_rule.items
        next(n) == CronNext(items[n].cron.expr, items[n].cron.start)
        \* the keys of next_executions
        times == {next(n) : n \in 1..Len(items)}
        next_execution_time == CHOOSE x \in times : \A y \in times : x <= y
        \* next_executions[next_execution_time], in the order of insertion
        due == FilterIdx(items, {it \in {items[n] : n \in 1..Len(items)} :
                                   CronNext(it.cron.expr, it.cron.start) = next_execution_time}, 1)
    IN IF cron_to_rule.kind = "raised" THEN cron_to_rule
       ELSE IF Len(items) = 0 THEN Raised("ValueError")
       ELSE [kind |-> "batch", time |-> next_execution_time,
             rules |-> [n \in 1..Len(due) |-> items[due[n]].rule]]

\* CronManager.get_next_execution: None, or the pair of the next instant and
\* the rules (their indices in self._rules) due at it
get_next_execution(rs, t) ==
    LET cron_to_rule == parse_schedules(rs, t)
        items == cron_to_rule.items
        next(n) == CronNext(items[n].cron.expr, items[n].cron.start)
        \* the keys of next_executions
        times == {next(n) : n \in 1..Len(items)}
        next_execution_time == CHOOSE x \in times : \A y \in times : x <= y
        \* next_executions[next_execution_time], in the order of insertion
        due == FilterIdx(items, {it \in {items[n] : n \in 1..Len(items)} :
                                   CronNext(it.cron.expr, it.cron.start) = next_execution_time}, 1)
    IN IF cron_to_rule.kind = "raised" THEN cron_to_rule
       ELSE IF Len(items) = 0 THEN None
       ELSE [kind |-> "batch", time |-> next_execution_time,
             rules |-> [n \in 1..Len(due) |-> items[due[n]].rule]]

-----------------------------------------------------------------------------
(* The initial state: a freshly constructed Trello (lines 42-50) and a      *)
(* remote service with no boards yet.                                       *)

NoCall == [op |-> "none"]

Init ==
    /\ now = StartTime
    /\ _boards = <<>>
    /\ _cache_time = 0
    /\ remote = <<>>
    /\ cards = 0
    /\ fetchedAt = -1
    /\ last = NoCall
    /\ rules = <<>>
    /\ sched = NoCall

-----------------------------------------------------------------------------
(* The environment.  The result of the last call is observed until the     *)
(* next event.                                                              *)

\* time passes
Tick(d) ==
    /\ now + d <= StartTime + MaxTicks
    /\ now' = now + d
    /\ last' = NoCall
    /\ UNCHANGED <<_boards, _cache_time, remote, cards, fetchedAt, rules, sched>>

\* somebody creates a board on the remote service
RemoteCreateBoard(name) ==
    /\ Len(remote) < MaxBoards
    /\ LET k == Len(remote) + 1
           labels == LabelsOf(name)
           b == [name |-> name, id |-> BoardId(k), lists |-> <<>>,
                 labels |-> [j \in 1..Len(labels) |->
                                TrelloLabel(labels[j].name, LabelId(k, j), labels[j].color)]]
       IN remote' = Append(remote, b)
    /\ last' = NoCall
    /\ UNCHANGED <<now, _boards, _cache_time, cards, fetchedAt, rules, sched>>

-----------------------------------------------------------------------------
(* The client calls.  The client has one caller, which makes one call at a  *)
(* time: a call starts when the result of the call before was taken.       *)

\* The caller has taken the result of the last call
Done ==
    /\ last # NoCall
    /\ last' = NoCall
    /\ UNCHANGED <<now, _boards, _cache_time, remote, cards, fetchedAt, rules, sched>>

\* A call of Trello._get_board (getBoard)
GetBoard(board_name, failAt) ==
    LET res == _get_board(_boards, _cache_time, now, remote, board_name, failAt)
    IN /\ last = NoCall
       /\ failAt \in FailPoints(_get_board(_boards, _cache_time, now, remote, board_name, 0))
       /\ _boards' = res.boards
       /\ fetchedAt' = IF res.completed > 0 THEN now ELSE fetchedAt
       /\ last' = [op |-> "get_board", board_name |-> board_name, at |-> now,
                   preFetched |-> fetchedAt,
                   preValid |-> __cache_is_valid(_boards, _cache_time, now),
                   preHit |-> __get_cached_board(_boards, board_name) # 0,
                   wasEmpty |-> _boards = <<>>,
                   inRemote |-> \E i \in 1..Len(remote) : remote[i].name = board_name,
                   ret |-> res.ret, calls |-> res.calls,
                   refreshes |-> res.refreshes, completed |-> res.completed]
       /\ UNCHANGED <<now, _cache_time, remote, cards, rules, sched>>

\* A call of Trello._get_list (getOrCreateList) on the board self._boards[i];
\* the caller may make it right after another one, whose result it keeps
GetList(i, list_name, failAt) ==
    LET res == _get_list(_boards[i], remote, list_name, failAt)
    IN /\ last = NoCall \/ last.op = "get_list"
       /\ i \in 1..Len(_boards)
       /\ failAt \in FailPoints(_get_list(_boards[i], remote, list_name, 0))
       /\ res.remote # remote => TotalLists(remote) < MaxLists
       /\ _boards' = [_boards EXCEPT ![i] = res.board]
       /\ remote' = res.remote
       /\ last' = [op |-> "get_list", idx |-> i, list_name |-> list_name,
                   preHit |-> __get_cached_list(_boards[i], list_name) # 0,
                   ret |-> res.ret, calls |-> res.calls,
                   \* the call just before, when it was the same call and returned
                   prev |-> IF /\ last.op = "get_list"
                               /\ last.idx = i /\ last.list_name = list_name
                               /\ last.ret.kind = "list"
                            THEN [kind |-> "same", ret |-> last.ret, calls |-> last.calls]
                            ELSE None]
       /\ UNCHANGED <<now, _cache_time, cards, fetchedAt, rules, sched>>

\* The label names a caller may pass
LabelNameLists ==
    {<<>>, <<"red">>, <<"blue">>, <<"doesnotexist">>, <<"red", "doesnotexist">>,
     <<"blue", "red">>}

\* A call of Trello._get_valid_label_ids (resolveLabelIds) on self._boards[i]
GetValidLabelIds(i, label_names) ==
    /\ last = NoCall
    /\ i \in 1..Len(_boards)
    /\ last' = [op |-> "get_valid_label_ids", idx |-> i, label_names |-> label_names,
                ret |-> _get_valid_label_ids(_boards[i], label_names),
                calls |-> <<>>]
    /\ UNCHANGED <<now, _boards, _cache_time, remote, cards, fetchedAt, rules, sched>>

\* The optional arguments a caller of add_card may pass; due is given as
\* its distance from the clock
CardOptions ==
    { [labels_names |-> None, due |-> None, checklist |-> None,
       description |-> "", place_at_top |-> FALSE],
      [labels_names |-> <<"red", "doesnotexist">>, due |-> DateTime(1, 0),
       checklist |-> None, description |-> "", place_at_top |-> TRUE],
      [labels_names |-> <<"blue", "red">>, due |-> DateTime(-1, 250000),
       checklist |-> <<"todo", <<"a", "b">>>>, description |-> "daily",
       place_at_top |-> FALSE] }

CardNames == {"Standup"}

\* the list of the create-card call among calls
CreatedIn(calls) ==
    LET n == CHOOSE n \in 1..Len(calls) : calls[n].what = "create_card"
    IN calls[n].arg.idList

\* A call of Trello.add_card.  failAt: the remote call whose
\* raise_for_status() raises, any call of the execution or none (0);
\* recorded as `failed`.
AddCard(board_name, list_name, card_name, o) ==
    LET a == [board_name |-> board_name, list_name |-> list_name, card_name |-> card_name,
              description |-> o.description, labels_names |-> o.labels_names,
              due |-> IF o.due = None THEN None ELSE DateTime(now + o.due.t, o.due.us),
              checklist |-> o.checklist, place_at_top |-> o.place_at_top]
    IN /\ \/ last = NoCall
          \* the caller invokes add_card again for an action whose execution
          \* failed after it had created the card
          \/ /\ last.op = "add_card"
             /\ last.ret.kind = "raised"
             /\ \E n \in 1..(Len(last.calls) - 1) : last.calls[n].what = "create_card"
             /\ last.args = a
       /\ \E failAt \in FailPoints(add_card(_boards, _cache_time, now, remote, cards, a, 0)) :
            LET res == add_card(_boards, _cache_time, now, remote, cards, a, failAt)
            IN /\ res.remote # remote => TotalLists(remote) < MaxLists
               /\ res.cards # cards => cards < MaxCards
               /\ _boards' = res.boards
               /\ remote' = res.remote
               /\ cards' = res.cards
               /\ fetchedAt' = fetchedAt
               /\ last' = [op |-> "add_card", args |-> a, at |-> now, failed |-> failAt,
                           ret |-> res.ret, calls |-> res.calls,
                           \* the failed execution this one follows: the list
                           \* its card went to, the cards there were after it
                           prev |-> IF last.op = "add_card"
                                    THEN [kind |-> "failed", cards |-> cards,
                                          idList |-> CreatedIn(last.calls)]
                                    ELSE None]
       /\ UNCHANGED <<now, _cache_time, rules, sched>>

\* the most remote calls one client call issues
MaxCalls == 2 * (1 + 2 * MaxBoards) + 8

Next ==
    \/ \E d \in TickSteps : Tick(d)
    \/ \E name \in BoardNames : RemoteCreateBoard(name)
    \/ \E name \in BoardNames, f \in 0..MaxCalls : GetBoard(name, f)
    \/ \E i \in 1..MaxBoards, name \in ListNames, f \in 0..MaxCalls : GetList(i, name, f)
    \/ \E i \in 1..MaxBoards, names \in LabelNameLists : GetValidLabelIds(i, names)
    \/ Done

Spec == Init /\ [][Next]_vars

-----------------------------------------------------------------------------
(* Rule loading and scheduling *)

\* The trigger and action definitions a rule file may hold
TriggerDefs ==
    { [schedule |-> EveryMinute], [schedule |-> EvenMinutes], [schedule |-> DailyAt0001],
      [schedule |-> NotCron], [every |-> "day"] }

ActionDefs ==
    { [do |-> "add_card", with |-> [board |-> "Ops", list |-> "Today", name |-> "Standup"]],
      [do |-> "Add_Card", with |-> [board |-> "Ops", name |-> "Standup"]],
      [do |-> "archive_card", with |-> [board |-> "Ops", list |-> "Today", name |-> "Standup"]] }

ActionDefLists == {<<>>} \cup {<<d>> : d \in ActionDefs}

\* ConfiguredRules.__init__ constructs the rules one by one: one more rule
\* is constructed, or its constructor raises
LoadRule(trigger_def, actions_def) ==
    LET rule == Rule(trigger_def, actions_def)
    IN /\ Len(rules) < MaxRules
       /\ rules' = IF rule.kind = "Rule" THEN Append(rules, rule) ELSE rules
       /\ sched' = [op |-> "load", trigger_def |-> trigger_def, actions_def |-> actions_def,
                    ret |-> IF rule.kind = "Rule" THEN None ELSE rule]
       /\ UNCHANGED trelloVars

\* a minute passes
TickMinute ==
    /\ now + 60 <= StartTime + 60 * MaxTicks
    /\ now' = now + 60
    /\ sched' = NoCall
    /\ UNCHANGED <<_boards, _cache_time, remote, cards, fetchedAt, last, rules>>

\* A call of CronManager.get_next_execution
GetNextExecution ==
    /\ sched' = [op |-> "get_next_execution", at |-> now,
                 ret |-> get_next_execution(rules, now)]
    /\ UNCHANGED <<trelloVars, rules>>

NextSched ==
    \/ \E td \in TriggerDefs, ads \in ActionDefLists : LoadRule(td, ads)
    \/ TickMinute
    \/ GetNextExecution

SpecSched == Init /\ [][NextSched]_vars

\* The client as its callers use it: add_card only
NextCard ==
    \/ \E d \in TickSteps : Tick(d)
    \/ \E name \in BoardNames : RemoteCreateBoard(name)
    \/ \E bn \in BoardNames, ln \in ListNames, cn \in CardNames, o \in CardOptions :
          AddCard(bn, ln, cn, o)
    \/ Done

SpecCard == Init /\ [][NextCard]_vars

\* The orchestrator executes an action of rule i: Action.execute
ExecuteAction(i) ==
    /\ last = NoCall
    /\ i \in 1..Len(rules)
    /\ \E n \in 1..Len(rules[i]._actions) :
          last' = [op |-> "execute", rule |-> i, action |-> n,
                   arguments |-> rules[i]._actions[n]._arguments,
                   ret |-> Action_execute(rules[i]._actions[n]).ret,
                   calls |-> Action_execute(rules[i]._actions[n]).calls]
    /\ UNCHANGED <<now, _boards, _cache_time, remote, cards, fetchedAt, rules, sched>>

\* Rules are loaded and their actions executed against the remote service
NextRule ==
    \/ \E td \in TriggerDefs, ads \in ActionDefLists : LoadRule(td, ads)
    \/ \E name \in BoardNames : RemoteCreateBoard(name)
    \/ \E i \in 1..MaxRules : ExecuteAction(i)
    \/ Done

SpecRule == Init /\ [][NextRule]_vars

-----------------------------------------------------------------------------
(* The claims.  `last` holds the last call of the client and `sched` the    *)
(* last call of the rule loader or the scheduler; in a state where last.op  *)
(* names a call, _boards and remote are as that call left them.             *)

FullSnapshot(rem) == RefreshLocal(rem, Len(RefreshCalls(rem)))

IsCall(c, what) == c.what = what
Issued(calls, what) == \E n \in 1..Len(calls) : IsCall(calls[n], what)

\* C1: after a getBoard call completed a refresh at time t, a getBoard call
\* at a time t' with t' - t <= 24h for a board name that is in the snapshot
\* returns that board and issues no discovery call.
C1_SnapshotReusedWithinTTL ==
    ( /\ last.op = "get_board"
      /\ last.preFetched >= 0
      /\ last.at - last.preFetched <= CACHE_VALIDITY
      /\ last.preHit )
    => ( /\ last.ret.kind = "board"
         /\ last.ret.board.name = last.board_name
         /\ last.calls = <<>> )

\* C2: on a freshly constructed cache, a getBoard call for a board that
\* exists remotely, none of whose discovery calls fails, performs exactly one
\* full discovery and returns the board with the matching name.
C2_FreshCacheOneDiscovery ==
    ( /\ last.op = "get_board"
      /\ last.wasEmpty
      /\ last.inRemote
      /\ last.ret.kind # "raised" )
    => ( /\ last.refreshes = 1
         /\ last.completed = 1
         /\ last.calls = RefreshCalls(remote)
         /\ last.ret.kind = "board"
         /\ last.ret.board.name = last.board_name
         /\ last.ret.board = _boards[last.ret.idx] )

C2_Witness ==
    /\ last.op = "get_board"
    /\ last.wasEmpty
    /\ last.inRemote
    /\ last.ret.kind = "board"
    /\ Len(last.calls) >= 3

\* C3: a getBoard call performs at most two refreshes; when its first lookup
\* used a valid snapshot (no refresh before it) and missed, exactly one
\* forced refresh is performed and, unless that refresh fails, the result of
\* one more lookup, in the refreshed snapshot, is returned (the board or
\* None).
C3_BoundedRefreshRetry ==
    last.op = "get_board" =>
        /\ last.refreshes <= 2
        /\ (last.preValid /\ ~last.preHit) =>
              /\ last.refreshes = 1
              /\ last.ret.kind # "raised" =>
                    /\ last.completed = 1
                    /\ last.calls = RefreshCalls(remote)
                    /\ _boards = FullSnapshot(remote)
                    /\ last.ret = BoardRet(_boards, __get_cached_board(_boards, last.board_name))

\* a board created remotely since the last refresh is found by the retry
C3_Witness ==
    /\ last.op = "get_board"
    /\ last.preValid
    /\ ~last.preHit
    /\ last.ret.kind = "board"
    /\ last.ret.board.name = last.board_name

\* C4: getBoard returns None only if a refresh completed during the call and
\* the name is absent from the snapshot that refresh produced; and if a
\* refresh completed during the call and the board was on the remote
\* service then, getBoard returns it.
C4_NotFoundOnlyAfterRefresh ==
    last.op = "get_board" =>
        /\ last.ret = None =>
              /\ last.completed >= 1
              /\ _boards = FullSnapshot(remote)
              /\ __get_cached_board(_boards, last.board_name) = 0
              /\ ~last.inRemote
        /\ (last.completed >= 1 /\ last.inRemote) =>
              /\ last.ret.kind = "board"
              /\ last.ret.board.name = last.board_name

\* None after the forced refresh of a valid snapshot that lacked the board
C4_Witness ==
    /\ last.op = "get_board"
    /\ last.preValid
    /\ ~last.preHit
    /\ last.ret = None
    /\ last.completed = 1

\* C5: getOrCreateList issues no create-list call for a name that is in
\* board.lists; called again on the same board with the same name after it
\* returned, it issues no create-list call (so the two calls issue at most
\* one) and returns the same list, which is in board.lists.
C5_ListCreatedOnce ==
    last.op = "get_list" =>
        /\ last.preHit => ~Issued(last.calls, "create_list")
        /\ last.prev # None =>
              /\ Len(last.prev.calls) + Len(last.calls) <= 1
              /\ ~Issued(last.calls, "create_list")
              /\ last.ret = last.prev.ret
              /\ \E j \in 1..Len(_boards[last.idx].lists) :
                     _boards[last.idx].lists[j] = last.ret.list

\* the first of the two calls created the list
C5_Witness ==
    /\ last.op = "get_list"
    /\ last.prev # None
    /\ Issued(last.prev.calls, "create_list")
    /\ last.ret = last.prev.ret

\* C6: a getBoard call replaces the snapshot (or its timestamp) only by a
\* refresh all of whose fetches succeeded, and then by the full snapshot of
\* the remote service; when a fetch of its refresh fails, the snapshot and
\* its timestamp are as they were before the call.
C6_RefreshAllOrNothing ==
    [][ last'.op = "get_board" =>
          /\ (last'.completed < last'.refreshes) =>
                (_boards' = _boards /\ _cache_time' = _cache_time)
          /\ (_boards' # _boards \/ _cache_time' # _cache_time) =>
                /\ last'.completed >= 1
                /\ last'.ret.kind # "raised"
                /\ _boards' = FullSnapshot(remote) ]_vars

\* a list or label fetch failed after the boards were discovered, in a
\* refresh of a cache that had a snapshot
C6_Witness ==
    /\ last.op = "get_board"
    /\ last.completed < last.refreshes
    /\ last.ret.kind = "raised"
    /\ Len(last.calls) >= 2
    /\ _boards # <<>>
    /\ _boards # FullSnapshot(remote)

\* C7: resolveLabelIds does not fail on an unknown name and returns only ids
\* of labels of the board whose name is among the names given;
\* ["red", "doesnotexist"] on a board with only a "red" label gives exactly
\* one id.
C7_UnknownLabelsDropped ==
    last.op = "get_valid_label_ids" =>
        LET labels == _boards[last.idx].labels
        IN /\ last.ret.kind = "ids"
           /\ \A n \in 1..Len(last.ret.ids) :
                 \E j \in 1..Len(labels) :
                    /\ labels[j].id = last.ret.ids[n]
                    /\ InList(labels[j].name, last.label_names)
           /\ ( /\ last.label_names = <<"red", "doesnotexist">>
                /\ Len(labels) = 1
                /\ labels[1].name = "red" )
              => last.ret.ids = <<labels[1].id>>

C7_Witness ==
    /\ last.op = "get_valid_label_ids"
    /\ last.label_names = <<"red", "doesnotexist">>
    /\ Len(_boards[last.idx].labels) = 1
    /\ Len(last.ret.ids) = 1

ScheduledRules(rs) == {i \in 1..Len(rs) : rs[i]._trigger._type = "SCHEDULED"}
NextFire(rs, i, t) == CronNext(rs[i]._trigger._cron_expr, t)

\* C8: for a non-empty set of Scheduled rules (with cron expressions that
\* parse), get_next_execution returns the smallest next-fire instant after
\* now among the rules, with exactly the rules whose next-fire instant is
\* that minimum.
C8_NextBatchIsMinimum ==
    ( /\ sched.op = "get_next_execution"
      /\ ScheduledRules(rules) # {}
      /\ \A i \in ScheduledRules(rules) : rules[i]._trigger._cron_expr.period > 0 )
    => ( /\ sched.ret.kind = "batch"
         /\ sched.ret.time > sched.at
         /\ \A i \in ScheduledRules(rules) : sched.ret.time <= NextFire(rules, i, sched.at)
         /\ {sched.ret.rules[n] : n \in 1..Len(sched.ret.rules)}
              = {i \in ScheduledRules(rules) : NextFire(rules, i, sched.at) = sched.ret.time} )

\* C9: get_next_execution on rules none of which has a Scheduled trigger
\* (the empty rule list included) returns None and does not raise.
C9_NoScheduledRuleGivesNone ==
    (sched.op = "get_next_execution" /\ ScheduledRules(rules) = {}) => sched.ret = None

C9_Witness ==
    /\ sched.op = "get_next_execution"
    /\ ScheduledRules(rules) = {}
    /\ sched.ret = None

\* C10: an add_card call whose due date is not after now ends in an error
\* and issues no create-card call.
C10_PastDueRejected ==
    ( /\ last.op = "add_card"
      /\ last.args.due # None
      /\ last.args.due.t <= last.at )
    => ( /\ last.ret.kind = "raised"
         /\ ~Issued(last.calls, "create_card") )

\* The step of add_card a remote call belongs to; 0: a discovery call of
\* getBoard
StepOf(c) ==
    CASE c.what = "create_list" -> 1
      [] c.what = "create_card" -> 2
      [] c.what = "add_label" -> 3
      [] c.what = "create_checklist" -> 4
      [] c.what = "add_checklist_item" -> 5
      [] OTHER -> 0

Mutations(calls) == {n \in 1..Len(calls) : StepOf(calls[n]) > 0}

\* the calls come step by step; one create-list, create-card and
\* create-checklist call at most, and no mutation is issued twice
InStepOrder(calls) ==
    \A m, n \in 1..Len(calls) :
        m < n => /\ StepOf(calls[m]) <= StepOf(calls[n])
                 /\ StepOf(calls[m]) = StepOf(calls[n]) =>
                       /\ StepOf(calls[m]) \in {0, 3, 5}
                       /\ StepOf(calls[m]) > 0 => calls[m] # calls[n]

\* the number of calls `what` that succeeded, when call number `failed` failed
Succeeded(calls, what, failed) ==
    Cardinality({n \in 1..Len(calls) : calls[n].what = what /\ n # failed})

IsPrefix(s, t) == Len(s) <= Len(t) /\ SubSeq(t, 1, Len(s)) = s

\* C11: the remote mutations of an add_card execution come in the order
\* create-list, create-card, add-label calls, create-checklist,
\* add-checklist-item calls; a create-list call is issued only for a list not
\* in the board's lists; the call that fails is the last call of the
\* execution; and every mutation that succeeded is on the remote service
\* after the execution, once (nothing undone, nothing repeated).
C11_SequentialNoRollback ==
    [][ last'.op = "add_card" =>
          LET calls == last'.calls
              failed == last'.failed
          IN /\ InStepOrder(calls)
             /\ failed > 0 => (Len(calls) = failed /\ last'.ret = Raised("HTTPError"))
             /\ failed = 0 => last'.ret # Raised("HTTPError")
             /\ cards' = cards + Succeeded(calls, "create_card", failed)
             /\ TotalLists(remote') = TotalLists(remote) + Succeeded(calls, "create_list", failed)
             /\ Len(remote') = Len(remote)
             /\ \A k \in 1..Len(remote) : IsPrefix(remote[k].lists, remote'[k].lists)
             /\ \A n \in 1..Len(calls) :
                   calls[n].what = "create_list" =>
                       \E i \in 1..Len(_boards') :
                          /\ _boards'[i].id = calls[n].arg.idBoard
                          /\ Len(NamedIdx(_boards'[i].lists, calls[n].arg.name))
                                = Succeeded(calls, "create_list", failed) ]_vars

\* a checklist call failed after the list and the card were created and a
\* label was added
C11_Witness ==
    /\ last.op = "add_card"
    /\ last.failed > 0
    /\ Issued(last.calls, "create_list")
    /\ Issued(last.calls, "create_card")
    /\ Issued(last.calls, "add_label")
    /\ StepOf(last.calls[Len(last.calls)]) >= 4
    /\ cards >= 1

\* C12: when getBoard returns None for the board of an add_card call, the
\* call raises RequiredResourceMissingException and issues no create-list,
\* create-card, add-label or checklist call; the remote service is as it
\* was.  A board that is not on the remote service is not found.
C12_MissingBoardNoMutation ==
    [][ last'.op = "add_card" =>
          LET gb == _get_board(_boards, _cache_time, now, remote,
                               last'.args.board_name, last'.failed)
              absent == \A k \in 1..Len(remote) : remote[k].name # last'.args.board_name
          IN /\ (absent /\ last'.failed = 0) => gb.ret = None
             /\ gb.ret = None =>
                   /\ last'.ret = Raised("RequiredResourceMissingException")
                   /\ Mutations(last'.calls) = {}
                   /\ last'.calls = gb.calls
                   /\ remote' = remote
                   /\ cards' = cards
             /\ last'.ret = Raised("RequiredResourceMissingException") => gb.ret = None ]_vars

\* the remote service has boards, none with the name asked for
C12_Witness ==
    /\ last.op = "add_card"
    /\ last.ret = Raised("RequiredResourceMissingException")
    /\ Len(remote) >= 1
    /\ Len(last.calls) >= 3

\* C13: an add_card call issues add-label calls only when label names were
\* given and checklist calls only when a checklist was given; with neither,
\* on a board that is found and with no call failing, it returns after the
\* discovery calls of getBoard, at most one create-list call and exactly one
\* create-card call.
C13_OptionalStepsOnlyWhenSupplied ==
    last.op = "add_card" =>
        LET a == last.args
            nolabels == a.labels_names = None \/ a.labels_names = <<>>
        IN /\ nolabels => ~Issued(last.calls, "add_label")
           /\ a.checklist = None =>
                 /\ ~Issued(last.calls, "create_checklist")
                 /\ ~Issued(last.calls, "add_checklist_item")
           /\ ( /\ nolabels
                /\ a.checklist = None
                /\ last.failed = 0
                /\ last.ret # Raised("RequiredResourceMissingException") )
              => /\ last.ret = None
                 /\ Succeeded(last.calls, "create_card", 0) = 1
                 /\ Succeeded(last.calls, "create_list", 0) <= 1
                 /\ \A n \in Mutations(last.calls) : StepOf(last.calls[n]) \in {1, 2}
                 /\ last.calls[Len(last.calls)].what = "create_card"

\* a card with no labels and no checklist was created in a list that was there
C13_Witness ==
    /\ last.op = "add_card"
    /\ last.args.labels_names = None
    /\ last.args.checklist = None
    /\ last.ret = None
    /\ Cardinality(Mutations(last.calls)) = 1
    /\ Issued(last.calls, "discover_lists")

\* C14: executing an add_card action of a loaded rule whose board is on the
\* remote service issues a create-card call, and a card is created.
C14_ExecuteCreatesCard ==
    ( /\ last.op = "execute"
      /\ \E k \in 1..Len(remote) : remote[k].name = last.arguments.board )
    => ( /\ Issued(last.calls, "create_card")
         /\ cards >= 1 )

\* C15: loading a rule whose trigger has a cron expression that does not
\* parse raises an error, and no loaded rule has such an expression.
C15_InvalidCronRejectedAtLoad ==
    /\ ( /\ sched.op = "load"
         /\ HasKey(sched.trigger_def, "schedule")
         /\ sched.trigger_def.schedule.period = 0 )
       => sched.ret.kind = "raised"
    /\ \A i \in 1..Len(rules) : rules[i]._trigger._cron_expr.period > 0

\* an action definition with an unknown `do` value
UnknownKind(d) == HasKey(d, "do") /\ Upper(d.do) \notin ActionType
\* an add_card definition whose arguments lack board, list or name
MissingArgument(d) ==
    /\ HasKey(d, "do") /\ Upper(d.do) = "ADD_CARD" /\ HasKey(d, "with")
    /\ \E k \in {"board", "list", "name"} : ~HasKey(d.with, k)

\* C16: constructing a Rule one of whose action definitions has an unknown
\* `do` value or lacks board, list or name raises an error (KeyError for the
\* kind, ValueError for the argument, when the trigger is well-formed); a
\* Rule that was constructed holds one action for each definition, each of a
\* known kind and with the three arguments, so that execution cannot meet
\* either defect.
C16_BadActionFailsAtLoad ==
    /\ sched.op = "load" =>
          LET ads == sched.actions_def
              bad == {n \in 1..Len(ads) : UnknownKind(ads[n]) \/ MissingArgument(ads[n])}
          IN /\ bad # {} => sched.ret.kind = "raised"
             /\ (bad # {} /\ HasKey(sched.trigger_def, "schedule")) =>
                   LET first == CHOOSE n \in bad : \A m \in bad : n <= m
                   IN sched.ret = IF UnknownKind(ads[first]) THEN Raised("KeyError")
                                  ELSE Raised("ValueError")
             /\ sched.ret = None =>
                   /\ Len(rules) >= 1
                   /\ Len(rules[Len(rules)]._actions) = Len(ads)
    /\ \A i \in 1..Len(rules) :
          \A n \in 1..Len(rules[i]._actions) :
             LET action == rules[i]._actions[n]
             IN /\ action.kind = "Action"
                /\ action._type \in ActionType
                /\ action._execution.kind = "AddCardExecution"
                /\ \A k \in {"board", "list", "name"} : HasKey(action._arguments, k)

\* an add_card definition without `list` made the constructor of Rule raise
C16_Witness ==
    /\ sched.op = "load"
    /\ HasKey(sched.trigger_def, "schedule")
    /\ Len(sched.actions_def) = 1
    /\ MissingArgument(sched.actions_def[1])
    /\ sched.ret = Raised("ValueError")

\* the rules whose next-fire instant after t is the smallest one
Earliest(rs, t) ==
    {i \in ScheduledRules(rs) :
        \A j \in ScheduledRules(rs) : NextFire(rs, i, t) <= NextFire(rs, j, t)}

\* C17: when two or more rules (with cron expressions that parse) share the
\* smallest next-fire instant, get_next_execution returns them in one batch,
\* in the order they have in the rule list.
C17_TiedRulesInListOrder ==
    ( /\ sched.op = "get_next_execution"
      /\ \A i \in ScheduledRules(rules) : rules[i]._trigger._cron_expr.period > 0
      /\ Cardinality(Earliest(rules, sched.at)) >= 2 )
    => ( /\ sched.ret.kind = "batch"
         /\ {sched.ret.rules[n] : n \in 1..Len(sched.ret.rules)} = Earliest(rules, sched.at)
         /\ \A m, n \in 1..Len(sched.ret.rules) :
               m < n => sched.ret.rules[m] < sched.ret.rules[n] )

\* C18: an add_card call made again with the same arguments right after an
\* execution that failed after its create-card call had succeeded issues no
\* create-list call; unless a discovery call of this execution fails, it
\* issues a create-card call for the same list; and unless a discovery or the
\* create-card call fails, one more card exists, the second at least.
C18_RetryCreatesSecondCard ==
    (last.op = "add_card" /\ last.prev # None) =>
        LET failing == IF last.failed = 0 THEN 6 ELSE StepOf(last.calls[last.failed])
        IN /\ ~Issued(last.calls, "create_list")
           /\ failing >= 2 =>
                 /\ Succeeded(last.calls, "create_card", 0) = 1
                 /\ CreatedIn(last.calls) = last.prev.idList
           /\ failing >= 3 =>
                 /\ cards = last.prev.cards + 1
                 /\ cards >= 2

\* the second execution created a second card and returned
C18_Witness ==
    /\ last.op = "add_card"
    /\ last.prev # None
    /\ last.ret = None
    /\ cards = 2
    /\ Issued(last.calls, "add_label")

\* C19: whatever add_card calls were made and whatever refreshes happened
\* between them, no board of the remote service has two lists of the same
\* name: for a board and a list name at most one create-list call succeeded.
C19_ListNeverCreatedTwice ==
    \A k \in 1..Len(remote) :
        \A i, j \in 1..Len(remote[k].lists) :
            remote[k].lists[i].name = remote[k].lists[j].name => i = j

\* an add_card call replaced the snapshot and found, in the new one, the
\* list an earlier call had created
C19_Witness ==
    /\ last.op = "add_card"
    /\ last.ret = None
    /\ Issued(last.calls, "discover_lists")
    /\ ~Issued(last.calls, "create_list")
    /\ \E k \in 1..Len(remote) :
          \E j \in 1..Len(remote[k].lists) :
             /\ remote[k].lists[j].name = last.args.list_name
             /\ remote[k].lists[j].id = CreatedIn(last.calls)

\* C20: in every state between the calls of the client, every board of the
\* snapshot has its lists and its labels (neither is None), so that no
\* lookup, getOrCreateList or resolveLabelIds call meets a board without
\* them (none raises TypeError).
C20_SnapshotBoardsPopulated ==
    /\ \A i \in 1..Len(_boards) :
          /\ _boards[i].lists # NoneList
          /\ _boards[i].labels # NoneList
    /\ last.op \in {"get_board", "get_list", "get_valid_label_ids", "add_card"} =>
          last.ret # Raised("TypeError")

\* a refresh failed between the fetches of the second board, with a
\* snapshot in place
C20_Witness ==
    /\ last.op = "get_board"
    /\ last.ret = Raised("HTTPError")
    /\ Len(last.calls) = 4
    /\ Len(_boards) >= 1
    /\ Len(remote) >= 2

====
